---- MODULE Spec2Model ----
(***************************************************************************)
(* Model of services/ml-service/app/main.py: the two inference handlers    *)
(* predict_disaster and analyze_image, the preprocessing transform, the    *)
(* label tables and the Redis result cache they write to.                  *)
(*                                                                         *)
(* Python values are modelled with their run-time type where the code's    *)
(* behaviour depends on it: a float is [ty |-> "float", num, den] (an      *)
(* exact rational), a list is [ty |-> "list", items], a dict is            *)
(* [ty |-> "dict", keys, at].  A call either returns Ok(v) or raises       *)
(* Raise(t, msg), and the handlers' try/except is modelled on that.        *)
(***************************************************************************)
EXTENDS Integers, Sequences, FiniteSets, TLC

\* ---------------------------------------------------------------- bounds
NumRequests == 2

\* ------------------------------------------------------ program constants
TTL == 3600
INPUT_SIZE == 224
NUM_CLASSES == 5

Requests == 1..NumRequests
Filenames == {"a.jpg", "b.jpg"}
Absent == [present |-> FALSE, value |-> <<>>, ttl |-> 0]

\* Upload payloads: a decodable image (content id, original width x height),
\* bytes PIL cannot identify, and an image file cut short (open succeeds
\* lazily, the pixel load in convert fails).
Payloads ==
    {[kind |-> "image", content |-> 1, size |-> <<640, 480>>],
     [kind |-> "garbage", content |-> 0, size |-> <<0, 0>>],
     [kind |-> "truncated", content |-> 0, size |-> <<640, 480>>]}

Ok(v) == [ok |-> TRUE, val |-> v]
Raise(t, msg) == [ok |-> FALSE, exc |-> t, msg |-> msg]

\* ----------------------------------------------------------- label tables
CLASS_LABELS == <<"No Damage", "Minor Damage", "Major Damage", "Destroyed", "Unknown">>

SEVERITY_MAPPING == <<"low", "medium", "high", "critical", "unknown">>

\* Python sequences are 0-based: xs[i] of the code is Index(xs, i) here.
Index(xs, i) ==
    IF i >= 0 /\ i < Len(xs) THEN Ok(xs[i + 1]) ELSE Raise("IndexError", "list index out of range")

\* ------------------------------------------------------------ preprocessing
\* Image.open(io.BytesIO(contents))
ImageOpen(contents) ==
    IF contents.kind = "garbage"
    THEN Raise("UnidentifiedImageError", "cannot identify image file")
    ELSE Ok([content |-> contents.content, size |-> contents.size,
             mode |-> "file", truncated |-> contents.kind = "truncated",
             resized |-> <<>>])

\* image.convert("RGB"): loads the pixel data
Convert(image) ==
    IF image.truncated
    THEN Raise("OSError", "image file is truncated")
    ELSE Ok([image EXCEPT !.mode = "RGB"])

\* image.resize((w, h)): a new image of that size; the resampling done so far
\* is part of the pixel data
ImageResize(image, w, h) ==
    [image EXCEPT !.size = <<w, h>>, !.resized = Append(image.resized, <<w, h>>)]

\* transform: Resize((224, 224)), ToTensor, Normalize.  The target size is the
\* fixed 224, whatever the size of the image handed in.
transform(image) ==
    LET r == ImageResize(image, INPUT_SIZE, INPUT_SIZE)
    IN  [shape |-> <<3, r.size[2], r.size[1]>>,
         pixels |-> [content |-> r.content, resized |-> r.resized]]

\* tensor.unsqueeze(0)
Unsqueeze(tensor) == [tensor EXCEPT !.shape = <<1>> \o tensor.shape]

\* ---------------------------------------------------------- inference engine
RECURSIVE SumSeq(_)
SumSeq(xs) == IF xs = <<>> THEN 0 ELSE Head(xs) + SumSeq(Tail(xs))

RECURSIVE Pow2(_)
Pow2(n) == IF n = 0 THEN 1 ELSE 2 * Pow2(n - 1)

\* model(tensor): the frozen network in eval mode is a deterministic function
\* of the pixel data; it yields one row of NUM_CLASSES logits per batch item.
Forward(tensor) ==
    LET h == tensor.pixels.content + SumSeq([i \in 1..Len(tensor.pixels.resized)
                                              |-> tensor.pixels.resized[i][1]])
    IN  [shape |-> <<tensor.shape[1], NUM_CLASSES>>,
         rows |-> [b \in 1..tensor.shape[1] |->
                     [c \in 1..NUM_CLASSES |-> ((h + c * c) % 4)]]]

\* torch.softmax(output, dim=1): each row becomes exp(l_c) / sum_k exp(l_k),
\* kept exact here with base 2 (order and normalisation are those of exp).
Softmax(output) ==
    [shape |-> output.shape,
     rows |-> [b \in 1..Len(output.rows) |->
                 LET e == [c \in 1..Len(output.rows[b]) |-> Pow2(output.rows[b][c])]
                 IN  [c \in 1..Len(e) |-> [ty |-> "float", num |-> e[c], den |-> SumSeq(e)]]]]

\* the tensor's elements in row-major order
Flat(t) ==
    LET w == t.shape[2]
    IN  [k \in 1..(t.shape[1] * w) |-> t.rows[((k - 1) \div w) + 1][((k - 1) % w) + 1]]

\* a float comparison x < y on exact rationals
Less(x, y) == x.num * y.den < y.num * x.den

\* probabilities.argmax().item(): 0-based index into the flattened tensor
ArgMax(xs) ==
    (CHOOSE k \in 1..Len(xs) :
        /\ \A j \in 1..Len(xs) : ~Less(xs[k], xs[j])
        /\ \A j \in 1..(k - 1) : Less(xs[j], xs[k])) - 1

\* probabilities.max().item()
Max(xs) == xs[ArgMax(xs) + 1]

\* probabilities.tolist(): a 2-D tensor gives a list of rows, each a list
ToList(t) ==
    [ty |-> "list",
     items |-> [b \in 1..Len(t.rows) |-> [ty |-> "list", items |-> t.rows[b]]]]

\* float(x): defined on a number, TypeError on a list
PyFloat(x) ==
    IF x.ty = "float" THEN Ok(x)
    ELSE Raise("TypeError", "float() argument must be a string or a real number, not 'list'")

\* {CLASS_LABELS[i]: float(prob) for i, prob in enumerate(probabilities.tolist())}
RECURSIVE DictComp(_, _, _)
DictComp(lst, i, acc) ==
    IF i >= Len(lst.items) THEN Ok(acc)
    ELSE LET k == Index(CLASS_LABELS, i)
             v == PyFloat(lst.items[i + 1])
         IN  IF ~k.ok THEN k
             ELSE IF ~v.ok THEN v
             ELSE DictComp(lst, i + 1,
                    [ty |-> "dict",
                     keys |-> IF k.val \in {acc.keys[j] : j \in 1..Len(acc.keys)}
                              THEN acc.keys ELSE Append(acc.keys, k.val),
                     at |-> [x \in DOMAIN acc.at \cup {k.val} |->
                               IF x = k.val THEN v.val ELSE acc.at[x]]])

EmptyDict == [ty |-> "dict", keys |-> <<>>, at |-> [x \in {} |-> 0]]

ClassProbabilities(probabilities) == DictComp(ToList(probabilities), 0, EmptyDict)

\* ------------------------------------------------------------- result cache
\* cache_key = f"prediction:{file.filename}"
CacheKey(filename) == <<"prediction:", filename>>

Keys == {CacheKey(f) : f \in Filenames}

\* json.dumps(prediction): the dict's items as text, in insertion order
Dumps(prediction) ==
    <<  <<"class", prediction.class>>,
        <<"class_name", prediction.class_name>>,
        <<"severity", prediction.severity>>,
        <<"confidence", prediction.confidence>>,
        <<"class_probabilities",
          [i \in 1..Len(prediction.class_probabilities.keys) |->
             <<prediction.class_probabilities.keys[i],
               prediction.class_probabilities.at[prediction.class_probabilities.keys[i]]>>]>>,
        <<"timestamp", prediction.timestamp>>  >>

\* redis_client.setex(key, seconds, value): sets the value and its expiry, or
\* raises when the store cannot be reached (and then stores nothing)
Setex(store, up, key, seconds, value) ==
    IF up
    THEN [res |-> Ok(TRUE),
          store |-> [store EXCEPT ![key] = [present |-> TRUE, value |-> value, ttl |-> seconds]],
          writes |-> <<[key |-> key, ttl |-> seconds, value |-> value]>>]
    ELSE [res |-> Raise("ConnectionError", "Error connecting to redis"),
          store |-> store, writes |-> <<>>]

\* the store's own expiry: after d seconds every entry has d seconds less to live
Expire(store, d) ==
    [k \in DOMAIN store |->
        IF store[k].present /\ store[k].ttl > d
        THEN [store[k] EXCEPT !.ttl = store[k].ttl - d]
        ELSE Absent]

\* ------------------------------------------------------------------ handlers
NoResponse == [status |-> 0, detail |-> "", body |-> <<>>]

\* a narrower clause, `except (ValueError, TypeError)`: any other exception
\* leaves the handler and the server answers 500
OnExceptionNarrow(e) ==
    IF e.exc \in {"ValueError", "TypeError"}
    THEN [status |-> 400, detail |-> e.msg, body |-> <<>>]
    ELSE [status |-> 500, detail |-> "Internal Server Error", body |-> <<>>]

\* except Exception as e: raise HTTPException(status_code=400, detail=str(e))
OnException(e) == [status |-> 400, detail |-> e.msg, body |-> <<>>]

\* a handler's outcome: the response, the tensor shapes handed to the model,
\* the cache writes applied, and the store afterwards
Outcome(response, calls, writes, store) ==
    [response |-> response, calls |-> calls, writes |-> writes, store |-> store]

\* lines 104-121 of predict_disaster: assemble, cache, return
PredictAssemble(file, probabilities, calls, store, up) ==
    LET flat == Flat(probabilities)
        predicted_class == ArgMax(flat)
        confidence == Max(flat)
        class_name == Index(CLASS_LABELS, predicted_class)
        severity == Index(SEVERITY_MAPPING, predicted_class)
        conf == PyFloat(confidence)
        class_probabilities == ClassProbabilities(probabilities)
    IN  IF ~class_name.ok THEN Outcome(OnException(class_name), calls, <<>>, store)
        ELSE IF ~severity.ok THEN Outcome(OnException(severity), calls, <<>>, store)
        ELSE IF ~conf.ok THEN Outcome(OnException(conf), calls, <<>>, store)
        ELSE IF ~class_probabilities.ok
             THEN Outcome(OnException(class_probabilities), calls, <<>>, store)
        ELSE LET prediction == [class |-> predicted_class,
                                class_name |-> class_name.val,
                                severity |-> severity.val,
                                confidence |-> conf.val,
                                class_probabilities |-> class_probabilities.val,
                                timestamp |-> "utcnow"]
                 set == Setex(store, up, CacheKey(file.filename), TTL, Dumps(prediction))
             IN  IF ~set.res.ok
                 THEN Outcome(OnException(set.res), calls, set.writes, set.store)
                 ELSE Outcome([status |-> 200, detail |-> "", body |-> prediction],
                              calls, set.writes, set.store)

\* predict_disaster(file): the whole try block and its except clause
predict_disaster(file, store, up) ==
    LET opened == ImageOpen(file.contents)
    IN  IF ~opened.ok THEN Outcome(OnException(opened), <<>>, <<>>, store)
        ELSE LET image == Convert(opened.val)
             IN  IF ~image.ok THEN Outcome(OnException(image), <<>>, <<>>, store)
                 ELSE LET tensor == Unsqueeze(transform(image.val))
                          probabilities == Softmax(Forward(tensor))
                      IN  PredictAssemble(file, probabilities,
                                          <<[scale |-> INPUT_SIZE, shape |-> tensor.shape]>>,
                                          store, up)

scales == <<224, 256, 384>>

\* resized = image.resize((scale, scale)); tensor = transform(resized).unsqueeze(0)
AnalyzeTensor(image, scale) == Unsqueeze(transform(ImageResize(image, scale, scale)))

\* the for loop of analyze_image over the remaining scales
RECURSIVE AnalyzeLoop(_, _, _, _)
AnalyzeLoop(image, rest, results, calls) ==
    IF rest = <<>> THEN [res |-> Ok(results), calls |-> calls]
    ELSE LET scale == Head(rest)
             tensor == AnalyzeTensor(image, scale)
             probabilities == Softmax(Forward(tensor))
             predictions == ClassProbabilities(probabilities)
             made == Append(calls, [scale |-> scale, shape |-> tensor.shape])
         IN  IF ~predictions.ok THEN [res |-> predictions, calls |-> made]
             ELSE AnalyzeLoop(image, Tail(rest),
                              Append(results, [scale |-> scale, predictions |-> predictions.val]),
                              made)

RECURSIVE ProdSeq(_)
ProdSeq(xs) == IF xs = <<>> THEN 1 ELSE Head(xs) * ProdSeq(Tail(xs))

\* np.mean(rows, axis=0): the element-wise mean of equally long rows of numbers;
\* rows that are dicts become an object array, whose sum raises
NpMean(rows) ==
    IF \E k \in 1..Len(rows) : rows[k].ty = "dict"
    THEN Raise("TypeError", "unsupported operand type(s) for +: 'dict' and 'dict'")
    ELSE LET n == Len(rows)
             width == Len(rows[1].items)
             D(i) == ProdSeq([k \in 1..n |-> rows[k].items[i].den])
         IN  Ok([i \in 1..width |->
                   [ty |-> "float",
                    num |-> SumSeq([k \in 1..n |->
                              rows[k].items[i].num * (D(i) \div rows[k].items[i].den)]),
                    den |-> n * D(i)]])

\* analyze_image(file): the whole try block and its except clause
analyze_image(file, store) ==
    LET opened == ImageOpen(file.contents)
    IN  IF ~opened.ok THEN Outcome(OnException(opened), <<>>, <<>>, store)
        ELSE LET image == Convert(opened.val)
             IN  IF ~image.ok THEN Outcome(OnException(image), <<>>, <<>>, store)
                 ELSE LET loop == AnalyzeLoop(image.val, scales, <<>>, <<>>)
                      IN  IF ~loop.res.ok
                          THEN Outcome(OnException(loop.res), loop.calls, <<>>, store)
                          ELSE LET results == loop.res.val
                                   ensemble_probs ==
                                       NpMean([k \in 1..Len(results) |-> results[k].predictions])
                               IN  IF ~ensemble_probs.ok
                                   THEN Outcome(OnException(ensemble_probs), loop.calls, <<>>, store)
                                   ELSE LET predicted_class == ArgMax(ensemble_probs.val)
                                        IN  Outcome(
                                              [status |-> 200, detail |-> "",
                                               body |-> [analysis |-> results,
                                                         ensemble_prediction |->
                                                           [class |-> predicted_class,
                                                            class_name |-> CLASS_LABELS[predicted_class + 1],
                                                            confidence |-> ensemble_probs.val[predicted_class + 1]]]],
                                              loop.calls, <<>>, store)

\* ------------------------------------------------------------- state machine
VARIABLES pc, req, response, calls, writes, cache, redis_up

vars == <<pc, req, response, calls, writes, cache, redis_up>>

NoRequest == [op |-> "none", filename |-> "", contents |-> [kind |-> "none", content |-> 0, size |-> <<0, 0>>]]

\* an entry an earlier run of the service left in the store
StaleValue == << <<"class", 0>> >>

StaleEntry == [present |-> TRUE, value |-> StaleValue, ttl |-> TTL]

Init ==
    /\ pc = [r \in Requests |-> "idle"]
    /\ req = [r \in Requests |-> NoRequest]
    /\ response = [r \in Requests |-> NoResponse]
    /\ calls = [r \in Requests |-> <<>>]
    /\ writes = [r \in Requests |-> <<>>]
    /\ cache \in [Keys -> {Absent, StaleEntry}]
    /\ redis_up \in BOOLEAN

\* a request reaches one of the two routes and starts reading its upload
Arrive(r) ==
    /\ pc[r] = "idle"
    /\ \E op \in {"predict", "analyze"}, f \in Filenames, c \in Payloads :
          req' = [req EXCEPT ![r] = [op |-> op, filename |-> f, contents |-> c]]
    /\ pc' = [pc EXCEPT ![r] = "reading"]
    /\ UNCHANGED <<response, calls, writes, cache, redis_up>>

\* predict with the cache entry written on entry, before the upload is decoded
PredictDisasterCacheFirst(r) ==
    /\ pc[r] = "reading"
    /\ req[r].op = "predict"
    /\ LET early == Setex(cache, redis_up, CacheKey(req[r].filename), TTL, << <<"class", 1>> >>)
           out == predict_disaster(req[r], early.store, redis_up)
       IN  /\ response' = [response EXCEPT ![r] = out.response]
           /\ calls' = [calls EXCEPT ![r] = out.calls]
           /\ writes' = [writes EXCEPT ![r] = early.writes \o out.writes]
           /\ cache' = out.store
    /\ pc' = [pc EXCEPT ![r] = "done"]
    /\ UNCHANGED <<req, redis_up>>

\* POST /api/v1/ml/predict, from the end of `await file.read()` to the response
PredictDisaster(r) ==
    /\ pc[r] = "reading"
    /\ req[r].op = "predict"
    /\ LET out == predict_disaster(req[r], cache, redis_up)
       IN  /\ response' = [response EXCEPT ![r] = out.response]
           /\ calls' = [calls EXCEPT ![r] = out.calls]
           /\ writes' = [writes EXCEPT ![r] = out.writes]
           /\ cache' = out.store
    /\ pc' = [pc EXCEPT ![r] = "done"]
    /\ UNCHANGED <<req, redis_up>>

\* analyze with predict's cache line copied into it
AnalyzeImageCaching(r) ==
    /\ pc[r] = "reading"
    /\ req[r].op = "analyze"
    /\ LET out == analyze_image(req[r], cache)
           set == Setex(out.store, redis_up, CacheKey(req[r].filename), TTL, << <<"class", 1>> >>)
       IN  /\ response' = [response EXCEPT ![r] = out.response]
           /\ calls' = [calls EXCEPT ![r] = out.calls]
           /\ writes' = [writes EXCEPT ![r] = out.writes]
           /\ cache' = set.store
    /\ pc' = [pc EXCEPT ![r] = "done"]
    /\ UNCHANGED <<req, redis_up>>

\* POST /api/v1/ml/analyze, from the end of `await file.read()` to the response
AnalyzeImage(r) ==
    /\ pc[r] = "reading"
    /\ req[r].op = "analyze"
    /\ LET out == analyze_image(req[r], cache)
       IN  /\ response' = [response EXCEPT ![r] = out.response]
           /\ calls' = [calls EXCEPT ![r] = out.calls]
           /\ writes' = [writes EXCEPT ![r] = out.writes]
           /\ cache' = out.store
    /\ pc' = [pc EXCEPT ![r] = "done"]
    /\ UNCHANGED <<req, redis_up>>

\* the response has been sent; the slot serves the next request
Respond(r) ==
    /\ pc[r] = "done"
    /\ pc' = [pc EXCEPT ![r] = "idle"]
    /\ req' = [req EXCEPT ![r] = NoRequest]
    /\ response' = [response EXCEPT ![r] = NoResponse]
    /\ calls' = [calls EXCEPT ![r] = <<>>]
    /\ writes' = [writes EXCEPT ![r] = <<>>]
    /\ UNCHANGED <<cache, redis_up>>

\* time passes in the store
Tick ==
    /\ \E k \in Keys : cache[k].present
    /\ \E d \in {TTL \div 2, TTL} : cache' = Expire(cache, d)
    /\ UNCHANGED <<pc, req, response, calls, writes, redis_up>>

\* the store becomes unreachable, or reachable again; its entries are kept
RedisFlap ==
    /\ redis_up' = ~redis_up
    /\ UNCHANGED <<pc, req, response, calls, writes, cache>>

Next ==
    \/ \E r \in Requests : Arrive(r)
    \/ \E r \in Requests : PredictDisaster(r)
    \/ \E r \in Requests : AnalyzeImage(r)
    \/ \E r \in Requests : Respond(r)
    \/ Tick
    \/ RedisFlap

Spec == Init /\ [][Next]_vars

\* =================================================================== claims
Decodable(r) == req[r].contents.kind = "image"

\* the step in which request r's handler runs to its response
Completes(r, op) == pc[r] = "reading" /\ pc'[r] = "done" /\ req[r].op = op

\* the decoded image of request r's upload
ImageOf(r) == Convert(ImageOpen(req[r].contents).val).val

\* a read of a key: the stored value, or None for a missing or expired key
Get(store, key) == IF store[key].present THEN Ok(store[key].value) ELSE Ok("None")

LabelSet == {CLASS_LABELS[i] : i \in 1..Len(CLASS_LABELS)}

\* C1: a predict on a decodable image that runs while the cache store is
\* unreachable still answers 200 with its PredictionResult.
C1_CacheFailureSwallowed ==
    [][\A r \in Requests :
          (Completes(r, "predict") /\ Decodable(r) /\ ~redis_up)
              => /\ response'[r].status = 200
                 /\ response'[r].body.class \in 0..(NUM_CLASSES - 1)]_vars

\* C2: when a predict on a decodable image with filename f returns, the store
\* holds under "prediction:" + f the serialized result that was returned, with
\* 3600 seconds to live; a read within that time gives that value and a read
\* after it gives nothing.
C2_CacheRoundTrip ==
    [][\A r \in Requests :
          (Completes(r, "predict") /\ Decodable(r) /\ redis_up)
              => LET key == CacheKey(req[r].filename)
                 IN  /\ response'[r].status = 200
                     /\ cache'[key].present
                     /\ cache'[key].ttl = TTL
                     /\ cache'[key].value = Dumps(response'[r].body)
                     /\ Get(Expire(cache', TTL - 1), key) = Ok(Dumps(response'[r].body))
                     /\ Get(Expire(cache', TTL), key) = Ok("None")]_vars

\* C3: every predict on a decodable image answers 200 with a well-formed
\* PredictionResult: class in 0..4, class_name and severity the table entries
\* of that class, one probability per class label.
C3_PredictWellFormed ==
    \A r \in Requests :
        (pc[r] = "done" /\ req[r].op = "predict" /\ Decodable(r))
            => /\ response[r].status = 200
               /\ response[r].body.class \in 0..(NUM_CLASSES - 1)
               /\ response[r].body.class_name = CLASS_LABELS[response[r].body.class + 1]
               /\ response[r].body.severity = SEVERITY_MAPPING[response[r].body.class + 1]
               /\ DOMAIN response[r].body.class_probabilities.at = LabelSet
               /\ Len(response[r].body.class_probabilities.keys) = NUM_CLASSES

\* C4: every analyze on a decodable image answers 200 with exactly three
\* observations, for the scales 224, 256, 384 in that order, each with the
\* probabilities computed at that scale.
C4_AnalyzeThreeScales ==
    \A r \in Requests :
        (pc[r] = "done" /\ req[r].op = "analyze" /\ Decodable(r))
            => /\ response[r].status = 200
               /\ Len(response[r].body.analysis) = Len(scales)
               /\ \A i \in 1..Len(scales) :
                     /\ response[r].body.analysis[i].scale = scales[i]
                     /\ \A c \in 1..NUM_CLASSES :
                           response[r].body.analysis[i].predictions.at[CLASS_LABELS[c]]
                             = Softmax(Forward(AnalyzeTensor(ImageOf(r), scales[i]))).rows[1][c]

\* the element-wise mean of the per-scale probability rows of an image
ScaleMean(image) ==
    NpMean([i \in 1..Len(scales) |->
              [ty |-> "list", items |-> Softmax(Forward(AnalyzeTensor(image, scales[i]))).rows[1]]])

\* C5: the ensemble of an analyze on a decodable image is the equal-weight
\* mean of the three per-scale vectors: its class is the argmax of the mean
\* and its confidence the mean's value at that class.
C5_EnsembleIsMean ==
    \A r \in Requests :
        (pc[r] = "done" /\ req[r].op = "analyze" /\ Decodable(r))
            => /\ response[r].status = 200
               /\ response[r].body.ensemble_prediction.class = ArgMax(ScaleMean(ImageOf(r)).val)
               /\ response[r].body.ensemble_prediction.confidence
                    = ScaleMean(ImageOf(r)).val[response[r].body.ensemble_prediction.class + 1]

\* C6: a payload that is no decodable image ends, in predict and in analyze,
\* in the client error 400 with a message, never in a crash or a result.
C6_MalformedIsClientError ==
    \A r \in Requests :
        (pc[r] = "done" /\ ~Decodable(r))
            => /\ response[r].status = 400
               /\ response[r].detail # ""
               /\ response[r].body = <<>>

C6_Witness ==
    \E r1, r2 \in Requests :
        /\ pc[r1] = "done" /\ req[r1].op = "predict" /\ req[r1].contents.kind = "garbage"
        /\ pc[r2] = "done" /\ req[r2].op = "analyze" /\ req[r2].contents.kind = "truncated"
        /\ response[r1].status = 400 /\ response[r2].status = 400

\* C7: an analyze request, successful or failed, leaves every cache entry as
\* it was and writes nothing; an entry is created, overwritten or refreshed
\* only by a predict with that entry's filename; and no response depends on
\* what the cache holds (nothing is read back).
C7_OnlyPredictTouchesCache ==
    [][/\ \A r \in Requests :
             Completes(r, "analyze") => (cache' = cache /\ writes'[r] = <<>>)
       /\ \A k \in Keys :
             (cache'[k].present /\ (~cache[k].present \/ cache'[k].ttl > cache[k].ttl
                                                      \/ cache'[k].value # cache[k].value))
                 => \E r \in Requests : Completes(r, "predict") /\ CacheKey(req[r].filename) = k
       /\ \A r \in Requests :
             /\ Completes(r, "analyze")
                  => response'[r] = analyze_image(req[r], [k \in Keys |-> Absent]).response
             /\ Completes(r, "predict")
                  => response'[r] = predict_disaster(req[r], [k \in Keys |-> Absent], redis_up).response]_vars

C7_Witness ==
    \E r \in Requests :
        /\ pc[r] = "done" /\ req[r].op = "analyze" /\ Decodable(r)
        /\ calls[r] # <<>>
        /\ writes[r] = <<>>
        /\ cache[CacheKey(req[r].filename)] = StaleEntry

\* C8: the cache write of a predict on a decodable image takes effect whatever
\* entry the key held (the last writer wins) and changes no other key.
C8_LastWriterWins ==
    [][\A r \in Requests :
          (Completes(r, "predict") /\ Decodable(r) /\ redis_up)
              => /\ Len(writes'[r]) = 1
                 /\ writes'[r][1].key = CacheKey(req[r].filename)
                 /\ cache'[CacheKey(req[r].filename)].value = writes'[r][1].value
                 /\ \A k \in Keys \ {CacheKey(req[r].filename)} : cache'[k] = cache[k]]_vars

\* C9: the tensor analyze hands to the model for scale s has spatial size
\* s x s, for s = 224, 256 and 384.
C9_TensorHasScaleSize ==
    \A r \in Requests :
        (pc[r] = "done" /\ req[r].op = "analyze" /\ Decodable(r))
            => \A i \in 1..Len(scales) :
                  AnalyzeTensor(ImageOf(r), scales[i]).shape = <<1, 3, scales[i], scales[i]>>

\* C10: a predict writes the cache at most once, under its own key, and only
\* when it answers 200; a predict that ends in the client error leaves every
\* cache entry, value and expiry, as it was.
C10_FailedPredictLeavesCache ==
    [][\A r \in Requests :
          Completes(r, "predict")
              => /\ Len(writes'[r]) <= 1
                 /\ writes'[r] # <<>>
                      => (response'[r].status = 200 /\ writes'[r][1].key = CacheKey(req[r].filename))
                 /\ response'[r].status # 200 => (cache' = cache /\ writes'[r] = <<>>)]_vars

C10_Witness ==
    \E r \in Requests :
        /\ pc[r] = "done" /\ req[r].op = "predict" /\ ~Decodable(r)
        /\ response[r].status = 400
        /\ writes[r] = <<>>
        /\ \E k \in Keys : cache[k].present
====
